---- MODULE Spec2Model ----
(***************************************************************************)
(* The replication driver of cmd/replication.v2/plan.go: the overall state *)
(* machine (Replication.Drive and the rsf* state functions), the           *)
(* per-filesystem state machine (FSReplication.drive / doDrive) and the    *)
(* step executor (FSReplicationStep.do).                                   *)
(*                                                                         *)
(* One driver goroutine runs Drive.  pc is its position: the state         *)
(* function it is about to run, a place inside one, or the endpoint call   *)
(* it is blocked in.  Every call of the updater u (lock, closure, unlock)  *)
(* is one atomic step.  The environment cancels the context, fires the     *)
(* 10 s timers and offers retryNow signals.  The wall clock, and with it   *)
(* the value of Replication.sleepUntil, is not modelled: a timer is        *)
(* either armed or has fired.                                              *)
(***************************************************************************)
EXTENDS Naturals, Sequences, FiniteSets

\* Number of filesystems the sender can list.
NumFS == 2
\* Versions are identified by their creation time, 1..MaxVersion.
MaxVersion == 3

FS == 1..NumFS
Versions == 1..MaxVersion

\* a nil *replicationQueueItem / nil *FilesystemVersion
None == 0

VARIABLES
    state,                  \* Replication.state
    pending,                \* Replication.pending   (sequence of queue items)
    completed,              \* Replication.completed (sequence of queue items)
    active,                 \* Replication.active    (queue item or None)
    planningError,          \* Replication.planningError
    contextError,           \* Replication.contextError
    fsr,                    \* queue item -> its FSReplication
    retriesSinceLastError,  \* queue item -> replicationQueueItem.retriesSinceLastError
    fsrLock,                \* queue item -> is FSReplication.lock held (by the driver)
    pc,                     \* position of the driver goroutine
    timer,                  \* the time.Timer of the current wait
    ctx,                    \* the context: "live" or its Err()
    retryNow,               \* a signal was sent on the retryNow channel during this wait
    sfss,                   \* rsfPlanning: number of filesystems the sender listed
    rfss,                   \* rsfPlanning: filesystems the receiver listed
    i,                      \* rsfPlanning: loop index into sfss
    plPending,              \* rsfPlanning: local pending
    plCompleted,            \* rsfPlanning: local completed
    plFsr,                  \* rsfPlanning: the FSReplications built so far
    io,                     \* what the last endpoint call returned, and the
                            \* locals sres, sstream and rr of FSReplicationStep.do
    planned                 \* history: the queue items installed by Planning

vars == <<state, pending, completed, active, planningError, contextError, fsr,
          retriesSinceLastError, fsrLock, pc, timer, ctx, retryNow,
          sfss, rfss, i, plPending, plCompleted, plFsr, io, planned>>

rVars   == <<state, pending, completed, active, planningError, contextError>>
planVars == <<sfss, rfss, i, plPending, plCompleted, plFsr>>
envVars == <<ctx, retryNow>>

Range(s) == {s[k] : k \in 1..Len(s)}

----------------------------------------------------------------------------
\* Data

NoStep == [from |-> None, to |-> None, state |-> "none", err |-> "nil"]

\* an item that no FSReplication has been built for
NoFSR == [state |-> "none", permanentError |-> "nil",
          completed |-> <<>>, pending |-> <<>>, active |-> NoStep]

\* errors an endpoint's Send or Receive can return
StepErrors == {"EOF", "ErrUnexpectedEOF", "ErrClosedPipe", "NetError", "Other"}

\* io before any call: no result, no stream, no requests
IoNone == [ret |-> "none",
           sres |-> [UsedResumeToken |-> FALSE],
           sstream |-> "nil",
           rr |-> [Filesystem |-> None, ClearResumeToken |-> FALSE]]

\* the receive request with ClearResumeToken copied from UsedResumeToken
ReceiveReqSameFlag(path, sres) ==
    [Filesystem |-> path, ClearResumeToken |-> sres.UsedResumeToken]

\* the receive request FSReplicationStep.do builds from the send result
ReceiveReq(path, sres) ==
    [Filesystem |-> path, ClearResumeToken |-> ~sres.UsedResumeToken]

\* rsf that maps Completed to rsfWorking, so that Drive's loop goes on
rsfCompletedWorks(s) ==
    CASE s = "Planning"      -> "rsfPlanning"
      [] s = "PlanningError" -> "rsfPlanningError"
      [] s = "Working"       -> "rsfWorking"
      [] s = "WorkingWait"   -> "rsfWorkingWait"
      [] s = "Completed"     -> "rsfWorking"
      [] s = "ContextDone"   -> "nil"

\* ReplicationState.rsf: the state function of a state; "nil" ends Drive's loop
rsf(s) ==
    CASE s = "Planning"      -> "rsfPlanning"
      [] s = "PlanningError" -> "rsfPlanningError"
      [] s = "Working"       -> "rsfWorking"
      [] s = "WorkingWait"   -> "rsfWorkingWait"
      [] s = "Completed"     -> "nil"
      [] s = "ContextDone"   -> "nil"

\* newReplicationQueueItemPermanentError that loses the error
newReplicationQueueItemPermanentErrorNoErr(err) ==
    [state |-> "FSPermanentError", permanentError |-> "nil",
     completed |-> <<>>, pending |-> <<>>, active |-> NoStep]

newReplicationQueueItemPermanentError(err) ==
    [state |-> "FSPermanentError", permanentError |-> err,
     completed |-> <<>>, pending |-> <<>>, active |-> NoStep]

buildNewFSReplication ==
    [state |-> "none", permanentError |-> "nil",
     completed |-> <<>>, pending |-> <<>>, active |-> NoStep]

AddStep(b, from, to) ==
    [b EXCEPT !.pending =
        Append(@, [from |-> from, to |-> to, state |-> "StepPending", err |-> "nil"])]

\* Complete that sets Queued also for a filesystem without steps
CompleteAlwaysQueued(b) == [b EXCEPT !.state = "FSQueued"]

Complete(b) ==
    IF Len(b.pending) > 0 THEN [b EXCEPT !.state = "FSQueued"]
                          ELSE [b EXCEPT !.state = "FSCompleted"]

\* rsfPlanning's use of the builder: one full step for a path of length 1,
\* else one incremental step per adjacent pair
RECURSIVE AddIncrementalSteps(_, _, _)
AddIncrementalSteps(b, path, k) ==
    IF k >= Len(path) THEN b
    ELSE AddIncrementalSteps(AddStep(b, path[k], path[k + 1]), path, k + 1)

\* rsfPlanning's use of the builder without the case of a path of length 1
BuildFromPathNoFull(path) ==
    Complete(AddIncrementalSteps(buildNewFSReplication, path, 1))

BuildFromPath(path) ==
    IF Len(path) = 1
    THEN Complete(AddStep(buildNewFSReplication, None, path[1]))
    ELSE Complete(AddIncrementalSteps(buildNewFSReplication, path, 1))

\* What IncrementalPath followed by resolveConflict can hand to rsfPlanning:
\* no path (an unresolved conflict), the empty path (nothing to do), a single
\* version (a full send of it), or the versions from one the receiver has up
\* to the sender's latest, MaxVersion, in creation order.
PathFrom(lo) == [k \in 1..(MaxVersion - lo + 1) |-> lo + k - 1]

AscendingPaths ==
    {<<>>} \cup {<<v>> : v \in Versions} \cup {PathFrom(lo) : lo \in 1..(MaxVersion - 1)}

IncrementalPathResults ==
    {[isNil |-> TRUE, path |-> <<>>]} \cup
    {[isNil |-> FALSE, path |-> p] : p \in AscendingPaths}

----------------------------------------------------------------------------
Init ==
    /\ state = "Planning"
    /\ pending = <<>>
    /\ completed = <<>>
    /\ active = None
    /\ planningError = "nil"
    /\ contextError = "nil"
    /\ fsr = [f \in FS |-> NoFSR]
    /\ retriesSinceLastError = [f \in FS |-> 0]
    /\ fsrLock = [f \in FS |-> FALSE]
    /\ pc = "rsfPlanning"
    /\ timer = "off"
    /\ ctx = "live"
    /\ retryNow = FALSE
    /\ sfss = 0
    /\ rfss = {}
    /\ i = 1
    /\ plPending = <<>>
    /\ plCompleted = <<>>
    /\ plFsr = [f \in FS |-> NoFSR]
    /\ io = IoNone
    /\ planned = {}

----------------------------------------------------------------------------
\* rsfPlanning

\* the locals of rsfPlanning die when it returns
PlanLocalsReset ==
    /\ sfss' = 0
    /\ rfss' = {}
    /\ i' = 1
    /\ plPending' = <<>>
    /\ plCompleted' = <<>>
    /\ plFsr' = [f \in FS |-> NoFSR]

\* handlePlanningError that installs what Planning has built so far
handlePlanningErrorInstalls(err) ==
    /\ planningError' = err
    /\ state' = "PlanningError"
    /\ pc' = rsf("PlanningError")
    /\ pending' = plPending
    /\ completed' = plCompleted
    /\ PlanLocalsReset
    /\ UNCHANGED <<active, contextError, fsr,
                   retriesSinceLastError, fsrLock, timer, planned, envVars>>

handlePlanningError(err) ==
    /\ planningError' = err
    /\ state' = "PlanningError"
    /\ pc' = rsf("PlanningError")
    /\ PlanLocalsReset
    /\ UNCHANGED <<pending, completed, active, contextError, fsr,
                   retriesSinceLastError, fsrLock, timer, planned, envVars>>

rsfPlanningBegin ==
    /\ pc = "rsfPlanning"
    /\ pc' = "Sender.ListFilesystems"
    /\ UNCHANGED <<rVars, fsr, retriesSinceLastError, fsrLock, timer, planVars, planned, envVars, io>>

SenderListFilesystemsReturn ==
    /\ pc = "Sender.ListFilesystems"
    /\ \E ok \in BOOLEAN, n \in 0..NumFS :
         /\ io' = [io EXCEPT !.ret = IF ok THEN "ok" ELSE "error"]
         /\ IF ~ok THEN handlePlanningError("err:Sender.ListFilesystems")
            ELSE
              /\ sfss' = n
              /\ pc' = "Receiver.ListFilesystems"
              /\ UNCHANGED <<rVars, fsr, retriesSinceLastError, fsrLock, timer,
                             rfss, i, plPending, plCompleted, plFsr, planned, envVars>>

ReceiverListFilesystemsReturn ==
    /\ pc = "Receiver.ListFilesystems"
    /\ \E ok \in BOOLEAN, r \in SUBSET FS :
         /\ io' = [io EXCEPT !.ret = IF ok THEN "ok" ELSE "error"]
         /\ IF ~ok THEN handlePlanningError("err:Receiver.ListFilesystems")
            ELSE
              /\ rfss' = r
              /\ i' = 1
              /\ plPending' = <<>>
              /\ plCompleted' = <<>>
              /\ pc' = "rsfPlanning.loop"
              /\ UNCHANGED <<rVars, fsr, retriesSinceLastError, fsrLock, timer,
                             sfss, plFsr, planned, envVars>>

\* the head of "for _, fs := range sfss", and the final updater call
rsfPlanningLoop ==
    /\ pc = "rsfPlanning.loop"
    /\ IF i <= sfss
       THEN /\ pc' = "Sender.ListFilesystemVersions"
            /\ UNCHANGED <<rVars, fsr, retriesSinceLastError, fsrLock, timer,
                           planVars, planned, envVars, io>>
       ELSE /\ completed' = plCompleted
            /\ pending' = plPending
            /\ planningError' = "nil"
            /\ state' = "Working"
            /\ pc' = rsf("Working")
            /\ fsr' = plFsr
            /\ retriesSinceLastError' = [f \in FS |-> 0]
            /\ planned' = Range(plPending) \cup Range(plCompleted)
            /\ PlanLocalsReset
            /\ io' = IoNone
            /\ UNCHANGED <<active, contextError, fsrLock, timer, envVars>>

SenderListFilesystemVersionsReturn ==
    /\ pc = "Sender.ListFilesystemVersions"
    /\ \E res \in {"error", "FilteredError", "fewVersions", "versions"} :
         /\ io' = [io EXCEPT !.ret = res]
         /\ CASE res = "error" -> handlePlanningError("err:Sender.ListFilesystemVersions")
           [] res = "FilteredError" -> handlePlanningError("FilteredError")
           [] res = "fewVersions" ->
                /\ plFsr' = [plFsr EXCEPT ![i] =
                       newReplicationQueueItemPermanentError("sender does not have any versions")]
                /\ plCompleted' = Append(plCompleted, i)
                /\ i' = i + 1
                /\ pc' = "rsfPlanning.loop"
                /\ UNCHANGED <<rVars, fsr, retriesSinceLastError, fsrLock, timer,
                               sfss, rfss, plPending, planned, envVars>>
           [] res = "versions" ->
                /\ pc' = IF i \in rfss THEN "Receiver.ListFilesystemVersions"
                                       ELSE "rsfPlanning.path"
                /\ UNCHANGED <<rVars, fsr, retriesSinceLastError, fsrLock, timer,
                               planVars, planned, envVars>>

\* Receiver.ListFilesystemVersions returns, and a FilteredError is handled as
\* every other error
ReceiverListFilesystemVersionsReturnNoSkip ==
    /\ pc = "Receiver.ListFilesystemVersions"
    /\ \E res \in {"error", "FilteredError", "versions"} :
         /\ io' = [io EXCEPT !.ret = res]
         /\ CASE res = "error" -> handlePlanningError("err:Receiver.ListFilesystemVersions")
           [] res = "FilteredError" -> handlePlanningError("err:Receiver.ListFilesystemVersions")
           [] res = "versions" ->
                /\ pc' = "rsfPlanning.path"
                /\ UNCHANGED <<rVars, fsr, retriesSinceLastError, fsrLock, timer,
                               planVars, planned, envVars>>

ReceiverListFilesystemVersionsReturn ==
    /\ pc = "Receiver.ListFilesystemVersions"
    /\ \E res \in {"error", "FilteredError", "versions"} :
         /\ io' = [io EXCEPT !.ret = res]
         /\ CASE res = "error" -> handlePlanningError("err:Receiver.ListFilesystemVersions")
           [] res = "FilteredError" ->
                /\ i' = i + 1
                /\ pc' = "rsfPlanning.loop"
                /\ UNCHANGED <<rVars, fsr, retriesSinceLastError, fsrLock, timer,
                               sfss, rfss, plPending, plCompleted, plFsr, planned, envVars>>
           [] res = "versions" ->
                /\ pc' = "rsfPlanning.path"
                /\ UNCHANGED <<rVars, fsr, retriesSinceLastError, fsrLock, timer,
                               planVars, planned, envVars>>

\* IncrementalPath, resolveConflict, the builder and the bucketing switch
rsfPlanningPath ==
    /\ pc = "rsfPlanning.path"
    /\ \E res \in IncrementalPathResults :
         IF res.isNil
         THEN /\ plFsr' = [plFsr EXCEPT ![i] =
                     newReplicationQueueItemPermanentError("conflict")]
              /\ plCompleted' = Append(plCompleted, i)
              /\ plPending' = plPending
              /\ pc' = "rsfPlanning.loop"
         ELSE LET qitem == BuildFromPath(res.path) IN
              /\ plFsr' = [plFsr EXCEPT ![i] = qitem]
              /\ plCompleted' = IF qitem.state = "FSCompleted"
                                THEN Append(plCompleted, i) ELSE plCompleted
              /\ plPending' = IF qitem.state = "FSQueued"
                              THEN Append(plPending, i) ELSE plPending
              /\ pc' = IF qitem.state \in {"FSCompleted", "FSQueued"}
                       THEN "rsfPlanning.loop" ELSE "panic"
    /\ i' = i + 1
    /\ UNCHANGED <<rVars, fsr, retriesSinceLastError, fsrLock, timer, sfss, rfss, planned, envVars, io>>

----------------------------------------------------------------------------
\* rsfPlanningError

rsfPlanningErrorEnter ==
    /\ pc = "rsfPlanningError"
    /\ timer' = "armed"
    /\ pc' = "rsfPlanningError.select"
    /\ UNCHANGED <<rVars, fsr, retriesSinceLastError, fsrLock, planVars, planned, envVars, io>>

\* case <-ctx.Done()
rsfPlanningErrorCtxDone ==
    /\ pc = "rsfPlanningError.select"
    /\ ctx # "live"
    /\ state' = "ContextDone"
    /\ contextError' = ctx
    /\ timer' = "off"
    /\ pc' = rsf("ContextDone")
    /\ UNCHANGED <<pending, completed, active, planningError, fsr,
                   retriesSinceLastError, fsrLock, planVars, planned, ctx, io>>
    /\ retryNow' = FALSE

\* case <-t.C
rsfPlanningErrorTimer ==
    /\ pc = "rsfPlanningError.select"
    /\ timer = "fired"
    /\ state' = "Planning"
    /\ timer' = "off"
    /\ pc' = rsf("Planning")
    /\ UNCHANGED <<pending, completed, active, planningError, contextError, fsr,
                   retriesSinceLastError, fsrLock, planVars, planned, ctx, io>>
    /\ retryNow' = FALSE

----------------------------------------------------------------------------
\* rsfWorking: the scheduler

statePrio(x) == IF fsr[x].state = "FSQueued" THEN 0 ELSE 1

nextStepDate(f) == fsr[f].pending[1].to

\* Less with the dates compared the wrong way round
LessDatesReversed(a, b) ==
    IF statePrio(a) # statePrio(b) THEN statePrio(a) < statePrio(b)
    ELSE IF fsr[a].state = "FSQueued" THEN nextStepDate(a) > nextStepDate(b)
    ELSE retriesSinceLastError[a] < retriesSinceLastError[b]

\* the less function handed to sort.Slice
Less(a, b) ==
    IF statePrio(a) # statePrio(b) THEN statePrio(a) < statePrio(b)
    ELSE IF fsr[a].state = "FSQueued" THEN nextStepDate(a) < nextStepDate(b)
    ELSE retriesSinceLastError[a] < retriesSinceLastError[b]

\* the panics of statePrio and nextStepDate, reached as soon as sort.Slice
\* compares anything
SortPanics(q) ==
    /\ Len(q) >= 2
    /\ \E x \in Range(q) :
         \/ fsr[x].state \notin {"FSQueued", "FSRetryWait"}
         \/ fsr[x].state = "FSQueued" /\ fsr[x].pending = <<>>

Permutations(q) ==
    {p \in [1..Len(q) -> Range(q)] : \A k, l \in 1..Len(q) : k # l => p[k] # p[l]}

\* sort.Slice is not stable: any arrangement of q that is sorted under Less
SortSlice(q) ==
    {p \in Permutations(q) : \A k, l \in 1..Len(q) : k < l => ~Less(p[l], p[k])}

\* the first updater call of rsfWorking
rsfWorkingSelect ==
    /\ pc = "rsfWorking"
    /\ IF active # None
       THEN /\ pc' = "rsfWorking.active"
            /\ UNCHANGED <<state, pending, active>>
       ELSE IF Len(pending) = 0
       THEN /\ state' = "Completed"
            /\ pc' = rsf("Completed")
            /\ UNCHANGED <<pending, active>>
       ELSE IF SortPanics(pending)
       THEN /\ pc' = "panic"
            /\ UNCHANGED <<state, pending, active>>
       ELSE \E p \in SortSlice(pending) :
            /\ active' = p[1]
            /\ pending' = Tail(p)
            /\ pc' = "rsfWorking.active"
            /\ state' = state
    /\ UNCHANGED <<completed, planningError, contextError, fsr,
                   retriesSinceLastError, fsrLock, timer, planVars, planned, envVars, io>>

\* rsfWorking with an active item: wait, panic, or call drive, which takes f.lock
rsfWorkingActive ==
    /\ pc = "rsfWorking.active"
    /\ IF fsr[active].state = "FSRetryWait"
       THEN /\ state' = "WorkingWait"
            /\ pc' = rsf("WorkingWait")
            /\ fsrLock' = fsrLock
       ELSE IF fsr[active].state # "FSQueued"
       THEN /\ pc' = "panic"
            /\ UNCHANGED <<state, fsrLock>>
       ELSE /\ pc' = "drive"
            /\ fsrLock' = [fsrLock EXCEPT ![active] = TRUE]
            /\ state' = state
    /\ UNCHANGED <<pending, completed, active, planningError, contextError, fsr,
                   retriesSinceLastError, timer, planVars, planned, envVars, io>>

----------------------------------------------------------------------------
\* FSReplication.drive, doDrive and FSReplicationStep.do

\* drive whose loop runs only while the filesystem is Active
driveLoopsOnlyActive(f) == f.state = "FSActive"

\* the condition of drive's for loop
driveLoops(f) == f.state \notin {"FSRetryWait", "FSPermanentError", "FSCompleted"}

\* doDrive that enters Active without promoting the head of pending
doDriveNoPromote(f) ==
    CASE f.state \in {"FSPermanentError", "FSCompleted"} -> f
      [] f.state = "FSRetryWait" -> [f EXCEPT !.state = "FSQueued"]
      [] f.state = "FSQueued" ->
            IF f.active = NoStep /\ Len(f.pending) = 0
            THEN [f EXCEPT !.state = "FSCompleted"]
            ELSE [f EXCEPT !.state = "FSActive"]

\* doDrive that promotes the last step of pending instead of the first
doDrivePromotesLast(f) ==
    CASE f.state \in {"FSPermanentError", "FSCompleted"} -> f
      [] f.state = "FSRetryWait" -> [f EXCEPT !.state = "FSQueued"]
      [] f.state = "FSQueued" ->
            IF f.active = NoStep
            THEN IF Len(f.pending) = 0
                 THEN [f EXCEPT !.state = "FSCompleted"]
                 ELSE [f EXCEPT !.active = f.pending[Len(f.pending)],
                                !.pending = SubSeq(f.pending, 1, Len(f.pending) - 1),
                                !.state = "FSActive"]
            ELSE [f EXCEPT !.state = "FSActive"]

\* doDrive in every state but Active
doDrive(f) ==
    CASE f.state \in {"FSPermanentError", "FSCompleted"} -> f
      [] f.state = "FSRetryWait" -> [f EXCEPT !.state = "FSQueued"]
      [] f.state = "FSQueued" ->
            IF f.active = NoStep
            THEN IF Len(f.pending) = 0
                 THEN [f EXCEPT !.state = "FSCompleted"]
                 ELSE [f EXCEPT !.active = Head(f.pending),
                                !.pending = Tail(f.pending),
                                !.state = "FSActive"]
            ELSE [f EXCEPT !.state = "FSActive"]

\* doDriveActive that goes on after a permanent error as after a completed step
doDriveActiveGoesOn(f) ==
    CASE f.active.state = "StepCompleted" ->
            [f EXCEPT !.completed = Append(f.completed, f.active),
                      !.active = NoStep,
                      !.state = IF Len(f.pending) > 0 THEN "FSQueued" ELSE "FSCompleted"]
      [] f.active.state = "StepRetry" -> [f EXCEPT !.state = "FSRetryWait"]
      [] f.active.state = "StepPermanentError" -> [f EXCEPT !.state = "FSQueued"]
      [] OTHER -> f

\* doDrive in Active, after f.active.do has returned: switch stepState
doDriveActive(f) ==
    CASE f.active.state = "StepCompleted" ->
            [f EXCEPT !.completed = Append(f.completed, f.active),
                      !.active = NoStep,
                      !.state = IF Len(f.pending) > 0 THEN "FSQueued" ELSE "FSCompleted"]
      [] f.active.state = "StepRetry" -> [f EXCEPT !.state = "FSRetryWait"]
      [] f.active.state = "StepPermanentError" -> [f EXCEPT !.state = "FSPermanentError"]
      [] OTHER -> f

\* updateStateError whose switch has no case for io.ErrClosedPipe
updateStateErrorNoClosedPipe(s, err) ==
    IF err \in {"EOF", "ErrUnexpectedEOF"}
    THEN [s EXCEPT !.err = err, !.state = "StepRetry"]
    ELSE IF err = "NetError"
    THEN [s EXCEPT !.err = err, !.state = "StepRetry"]
    ELSE [s EXCEPT !.err = err, !.state = "StepPermanentError"]

updateStateError(s, err) ==
    IF err \in {"EOF", "ErrUnexpectedEOF", "ErrClosedPipe"}
    THEN [s EXCEPT !.err = err, !.state = "StepRetry"]
    ELSE IF err = "NetError"
    THEN [s EXCEPT !.err = err, !.state = "StepRetry"]
    ELSE [s EXCEPT !.err = err, !.state = "StepPermanentError"]

updateStateCompleted(s) == [s EXCEPT !.err = "nil", !.state = "StepCompleted"]

\* one pass of drive's loop in a state other than Active
driveDoDrive ==
    /\ pc = "drive"
    /\ driveLoops(fsr[active])
    /\ fsr[active].state # "FSActive"
    /\ fsr' = [fsr EXCEPT ![active] = doDrive(@)]
    /\ UNCHANGED <<rVars, retriesSinceLastError, fsrLock, pc, timer, planVars, planned, envVars, io>>

\* doDrive in Active that calls do without dropping f.lock
driveDoStepKeepsLock ==
    /\ pc = "drive"
    /\ fsr[active].state = "FSActive"
    /\ fsrLock' = fsrLock
    /\ pc' = "Sender.Send"
    /\ UNCHANGED <<rVars, fsr, retriesSinceLastError, timer, planVars, planned, envVars, io>>

\* doDrive in Active drops f.lock and calls f.active.do, which calls Send
driveDoStep ==
    /\ pc = "drive"
    /\ fsr[active].state = "FSActive"
    /\ fsrLock' = [fsrLock EXCEPT ![active] = FALSE]
    /\ pc' = "Sender.Send"
    /\ UNCHANGED <<rVars, fsr, retriesSinceLastError, timer, planVars, planned, envVars, io>>

SendReturn ==
    /\ pc = "Sender.Send"
    /\ \E res \in {"stream", "nostream"} \cup StepErrors, used \in BOOLEAN :
         CASE res = "stream" ->
                /\ io' = [ret |-> res,
                          sres |-> [UsedResumeToken |-> used],
                          sstream |-> "open",
                          rr |-> ReceiveReq(active, [UsedResumeToken |-> used])]
                /\ pc' = "Receiver.Receive"
                /\ fsr' = fsr
           [] res = "nostream" ->
                /\ ~used
                /\ io' = [io EXCEPT !.ret = res]
                /\ fsr' = [fsr EXCEPT ![active].active = updateStateError(@,
                               "send request did not return a stream")]
                /\ pc' = "doDrive.relock"
           [] OTHER ->
                /\ ~used
                /\ io' = [io EXCEPT !.ret = res]
                /\ fsr' = [fsr EXCEPT ![active].active = updateStateError(@, res)]
                /\ pc' = "doDrive.relock"
    /\ UNCHANGED <<rVars, retriesSinceLastError, fsrLock, timer, planVars, planned, envVars>>

\* Receive returns; on an error sstream.Close() comes before updateStateError.
\* sres and rr are not read again and are forgotten.
ReceiveReturn ==
    /\ pc = "Receiver.Receive"
    /\ \E res \in {"ok"} \cup StepErrors :
         IF res = "ok"
         THEN /\ io' = [IoNone EXCEPT !.ret = res, !.sstream = "open"]
              /\ fsr' = [fsr EXCEPT ![active].active = updateStateCompleted(@)]
              /\ pc' = "doDrive.relock"
         ELSE /\ io' = [IoNone EXCEPT !.ret = res, !.sstream = "closed"]
              /\ fsr' = fsr
              /\ pc' = "updateStateError"
    /\ UNCHANGED <<rVars, retriesSinceLastError, fsrLock, timer, planVars, planned, envVars>>

\* return updateStateError(err) after the failed Receive
ReceiveFailed ==
    /\ pc = "updateStateError"
    /\ fsr' = [fsr EXCEPT ![active].active = updateStateError(@, io.ret)]
    /\ pc' = "doDrive.relock"
    /\ UNCHANGED <<rVars, retriesSinceLastError, fsrLock, timer, planVars, planned, envVars, io>>

\* the deferred f.lock.Lock(), then the switch on stepState; do's locals are gone
doDriveRelock ==
    /\ pc = "doDrive.relock"
    /\ fsrLock' = [fsrLock EXCEPT ![active] = TRUE]
    /\ fsr' = [fsr EXCEPT ![active] = doDriveActive(@)]
    /\ io' = IoNone
    /\ pc' = "drive"
    /\ UNCHANGED <<rVars, retriesSinceLastError, timer, planVars, planned, envVars>>

\* drive's loop ends: return f.state, unlock
driveReturn ==
    /\ pc = "drive"
    /\ ~driveLoops(fsr[active])
    /\ fsrLock' = [fsrLock EXCEPT ![active] = FALSE]
    /\ pc' = "rsfWorking.update"
    /\ UNCHANGED <<rVars, fsr, retriesSinceLastError, timer, planVars, planned, envVars, io>>

\* the closure that counts every return of drive as a retry
updateAfterDriveCountsAll(fsState) ==
    IF fsState = "FSQueued"
    THEN [retries |-> 0, completed |-> completed, active |-> active, panics |-> FALSE]
    ELSE IF fsState = "FSRetryWait"
    THEN [retries |-> retriesSinceLastError[active] + 1,
          completed |-> completed, active |-> active, panics |-> FALSE]
    ELSE IF fsState \in {"FSPermanentError", "FSCompleted"}
    THEN [retries |-> retriesSinceLastError[active] + 1,
          completed |-> Append(completed, active), active |-> None, panics |-> FALSE]
    ELSE [retries |-> retriesSinceLastError[active],
          completed |-> completed, active |-> active, panics |-> TRUE]

\* the closure that files the item under completed and leaves it active
updateAfterDriveKeepsActive(fsState) ==
    IF fsState = "FSQueued"
    THEN [retries |-> 0, completed |-> completed, active |-> active, panics |-> FALSE]
    ELSE IF fsState = "FSRetryWait"
    THEN [retries |-> retriesSinceLastError[active] + 1,
          completed |-> completed, active |-> active, panics |-> FALSE]
    ELSE IF fsState \in {"FSPermanentError", "FSCompleted"}
    THEN [retries |-> retriesSinceLastError[active],
          completed |-> Append(completed, active), active |-> active, panics |-> FALSE]
    ELSE [retries |-> retriesSinceLastError[active],
          completed |-> completed, active |-> active, panics |-> TRUE]

\* the closure that gives up the active item when drive returned RetryWait
updateAfterDriveReleasesRetry(fsState) ==
    IF fsState = "FSQueued"
    THEN [retries |-> 0, completed |-> completed, active |-> active, panics |-> FALSE]
    ELSE IF fsState = "FSRetryWait"
    THEN [retries |-> retriesSinceLastError[active] + 1,
          completed |-> completed, active |-> None, panics |-> FALSE]
    ELSE IF fsState \in {"FSPermanentError", "FSCompleted"}
    THEN [retries |-> retriesSinceLastError[active],
          completed |-> Append(completed, active), active |-> None, panics |-> FALSE]
    ELSE [retries |-> retriesSinceLastError[active],
          completed |-> completed, active |-> active, panics |-> TRUE]

\* the closure of rsfWorking's last updater call, fsState being what drive
\* returned: the new counter of the active item, completed and active
updateAfterDrive(fsState) ==
    IF fsState = "FSQueued"
    THEN [retries |-> 0, completed |-> completed, active |-> active, panics |-> FALSE]
    ELSE IF fsState = "FSRetryWait"
    THEN [retries |-> retriesSinceLastError[active] + 1,
          completed |-> completed, active |-> active, panics |-> FALSE]
    ELSE IF fsState \in {"FSPermanentError", "FSCompleted"}
    THEN [retries |-> retriesSinceLastError[active],
          completed |-> Append(completed, active), active |-> None, panics |-> FALSE]
    ELSE [retries |-> retriesSinceLastError[active],
          completed |-> completed, active |-> active, panics |-> TRUE]

rsfWorkingUpdate ==
    /\ pc = "rsfWorking.update"
    /\ LET u == updateAfterDrive(fsr[active].state) IN
       /\ retriesSinceLastError' = [retriesSinceLastError EXCEPT ![active] = u.retries]
       /\ completed' = u.completed
       /\ active' = u.active
       /\ pc' = IF u.panics THEN "panic" ELSE rsf(state)
    /\ UNCHANGED <<state, pending, planningError, contextError, fsr, fsrLock,
                   timer, planVars, planned, envVars, io>>

----------------------------------------------------------------------------
\* rsfWorkingWait

rsfWorkingWaitEnter ==
    /\ pc = "rsfWorkingWait"
    /\ timer' = "armed"
    /\ pc' = "rsfWorkingWait.select"
    /\ UNCHANGED <<rVars, fsr, retriesSinceLastError, fsrLock, planVars, planned, envVars, io>>

\* the cancellation case of the select going back to Working
rsfWorkingWaitCtxDoneToWorking ==
    /\ pc = "rsfWorkingWait.select"
    /\ ctx # "live"
    /\ state' = "Working"
    /\ timer' = "off"
    /\ pc' = rsf("Working")
    /\ UNCHANGED <<pending, completed, active, planningError, contextError, fsr,
                   retriesSinceLastError, fsrLock, planVars, planned, ctx, io>>
    /\ retryNow' = FALSE

\* case <-ctx.Done()
rsfWorkingWaitCtxDone ==
    /\ pc = "rsfWorkingWait.select"
    /\ ctx # "live"
    /\ state' = "ContextDone"
    /\ contextError' = ctx
    /\ timer' = "off"
    /\ pc' = rsf("ContextDone")
    /\ UNCHANGED <<pending, completed, active, planningError, fsr,
                   retriesSinceLastError, fsrLock, planVars, planned, ctx, io>>
    /\ retryNow' = FALSE

\* case <-t.C
rsfWorkingWaitTimer ==
    /\ pc = "rsfWorkingWait.select"
    /\ timer = "fired"
    /\ state' = "Working"
    /\ timer' = "off"
    /\ pc' = rsf("Working")
    /\ UNCHANGED <<pending, completed, active, planningError, contextError, fsr,
                   retriesSinceLastError, fsrLock, planVars, planned, ctx, io>>
    /\ retryNow' = FALSE

----------------------------------------------------------------------------
\* The environment

\* the 10 s of an armed timer pass
TimerFire ==
    /\ timer = "armed"
    /\ timer' = "fired"
    /\ UNCHANGED <<rVars, fsr, retriesSinceLastError, fsrLock, pc, planVars, planned, envVars, io>>

\* the context is cancelled or its deadline passes
Cancel ==
    /\ ctx = "live"
    /\ pc \notin {"nil", "panic"}
    /\ \E reason \in {"Canceled", "DeadlineExceeded"} : ctx' = reason
    /\ UNCHANGED <<rVars, fsr, retriesSinceLastError, fsrLock, pc, timer, planVars,
                   planned, retryNow, io>>

\* Somebody signals on the retryNow channel handed to Drive while the driver
\* waits.  A signal sent while nobody waits is lost, and what is left of one
\* ends with the wait.
SignalRetryNow ==
    /\ ~retryNow
    /\ pc \in {"rsfPlanningError.select", "rsfWorkingWait.select"}
    /\ retryNow' = TRUE
    /\ UNCHANGED <<rVars, fsr, retriesSinceLastError, fsrLock, pc, timer, planVars,
                   planned, ctx, io>>

----------------------------------------------------------------------------
\* every step of the driver goroutine leaves the environment alone
Driver ==
    \/ rsfPlanningBegin
    \/ SenderListFilesystemsReturn
    \/ ReceiverListFilesystemsReturn
    \/ rsfPlanningLoop
    \/ SenderListFilesystemVersionsReturn
    \/ ReceiverListFilesystemVersionsReturn
    \/ rsfPlanningPath
    \/ rsfPlanningErrorEnter
    \/ rsfPlanningErrorCtxDone
    \/ rsfPlanningErrorTimer
    \/ rsfWorkingSelect
    \/ rsfWorkingActive
    \/ driveDoDrive
    \/ driveDoStep
    \/ SendReturn
    \/ ReceiveReturn
    \/ ReceiveFailed
    \/ doDriveRelock
    \/ driveReturn
    \/ rsfWorkingUpdate
    \/ rsfWorkingWaitEnter
    \/ rsfWorkingWaitCtxDone
    \/ rsfWorkingWaitTimer

Next == Driver \/ TimerFire \/ Cancel \/ SignalRetryNow

Spec == Init /\ [][Next]_vars

\* The Go scheduler keeps the driver goroutine running, endpoint calls return,
\* and an armed timer fires.  Nothing obliges the environment to cancel or to
\* signal retryNow.
FairSpec == Spec /\ WF_vars(Driver) /\ WF_vars(TimerFire)

----------------------------------------------------------------------------
\* Properties

NonTerminal == {"Planning", "PlanningError", "Working", "WorkingWait"}
FSTerminal == {"FSCompleted", "FSPermanentError"}
StepTerminal == {"StepCompleted", "StepPermanentError"}

\* the driver is blocked in a call of Send or Receive
InStepCall == pc \in {"Sender.Send", "Receiver.Receive"}

\* the driver is blocked in a call of an endpoint
InEndpointCall ==
    pc \in {"Sender.ListFilesystems", "Receiver.ListFilesystems",
            "Sender.ListFilesystemVersions", "Receiver.ListFilesystemVersions",
            "Sender.Send", "Receiver.Receive"}

\* C1 Monotonic termination: in a run that is never cancelled, once the plan
\* is installed (Working is entered) the run eventually is Completed with
\* every planned filesystem in Completed or PermanentError.
C1_MonotonicTermination ==
    [](ctx = "live") =>
        [](state = "Working" =>
              <>(/\ state = "Completed"
                 /\ \A f \in planned : fsr[f].state \in FSTerminal))

\* C2 Retry path: in a run that is never cancelled, a filesystem that is in
\* RetryWait is eventually re-entered by the driver and moved back to Queued
\* (from where it becomes Active and executes the step again).
C2_RetryPath ==
    [](ctx = "live") =>
        \A f \in FS : [](fsr[f].state = "FSRetryWait" => <>(fsr[f].state = "FSQueued"))

\* C3 Cancellation: if the context is cancelled while the run is in a
\* non-terminal state, the run eventually is in ContextDone with the
\* context's error as contextError, and in ContextDone no endpoint call is
\* in progress.
C3_CancelledRunEndsInContextDone ==
    /\ []((ctx # "live" /\ state \in NonTerminal) =>
              <>(state = "ContextDone" /\ contextError = ctx))
    /\ [](state = "ContextDone" => ~InEndpointCall)
\* C4 Cancellation promptness: a step that changes the overall state out of
\* PlanningError or WorkingWait while the context is cancelled and the timer
\* of the wait has not fired leads to ContextDone, with contextError set to
\* the context's error.
C4_CancellationPromptness ==
    [][(/\ state \in {"PlanningError", "WorkingWait"}
        /\ ctx # "live"
        /\ timer # "fired"
        /\ state' # state)
       => (state' = "ContextDone" /\ contextError' = ctx /\ contextError' # "nil")]_vars

\* a cancelled wait of WorkingWait has ended in ContextDone
C4_Witness ==
    /\ state = "ContextDone"
    /\ contextError = ctx
    /\ active # None
    /\ fsr[active].state = "FSRetryWait"

\* C5 Wakeup: while the driver waits in WorkingWait and a retryNow signal has
\* been sent, the wait can end at once (the driver has a step to take even
\* though the timer has not fired and the context is live); in PlanningError
\* the same signal leaves the driver waiting.
C5_Wakeup ==
    /\ (pc = "rsfWorkingWait.select" /\ retryNow /\ timer = "armed" /\ ctx = "live")
            => ENABLED Driver
    /\ (pc = "rsfPlanningError.select" /\ retryNow /\ timer = "armed" /\ ctx = "live")
            => ~ENABLED Driver

\* C6 No duplicate scheduling: no item occurs twice in pending or completed,
\* pending, completed and the active slot are pairwise disjoint, and together
\* they are exactly the items the Planning pass installed.
ActiveSet == IF active = None THEN {} ELSE {active}

NoRepeats(q) == \A k, l \in 1..Len(q) : k # l => q[k] # q[l]

C6_NoDuplicateScheduling ==
    /\ NoRepeats(pending)
    /\ NoRepeats(completed)
    /\ Range(pending) \cap Range(completed) = {}
    /\ Range(pending) \cap ActiveSet = {}
    /\ Range(completed) \cap ActiveSet = {}
    /\ Range(pending) \cup Range(completed) \cup ActiveSet = planned

\* Working has moved one item to completed and promoted the next
C6_Witness ==
    /\ state = "Working"
    /\ active # None
    /\ completed # <<>>
    /\ \E f \in Range(completed) : Len(fsr[f].completed) >= 1
    /\ pc = "rsfWorking.active"

\* the FSReplications that exist
Built == {f \in FS : fsr[f].state # "none"}

\* C7 as stated: whenever the filesystem's lock is free, the active step is
\* non-null exactly in state Active.
C7_ActiveStepOnlyInActive ==
    \A f \in Built :
        ~fsrLock[f] => (fsr[f].state = "FSActive" <=> fsr[f].active # NoStep)

\* C7 amended: whenever the filesystem's lock is free, a filesystem in Active
\* has a non-null active step, one in Queued or Completed has none, one in
\* RetryWait keeps the step that failed (in state Retry) as its active step,
\* and one in PermanentError keeps the step that failed (in state
\* PermanentError) unless it was filed as PermanentError by Planning.
C7_ActiveStepAmended ==
    \A f \in Built :
        ~fsrLock[f] =>
            /\ fsr[f].state = "FSActive" => fsr[f].active # NoStep
            /\ fsr[f].state \in {"FSQueued", "FSCompleted"} => fsr[f].active = NoStep
            /\ fsr[f].state = "FSRetryWait" =>
                   (fsr[f].active # NoStep /\ fsr[f].active.state = "StepRetry")
            /\ fsr[f].state = "FSPermanentError" =>
                   IF fsr[f].permanentError # "nil"
                   THEN fsr[f].active = NoStep
                   ELSE fsr[f].active # NoStep /\ fsr[f].active.state = "StepPermanentError"

\* a step is being executed with the lock released, after an earlier
\* filesystem failed for good with its step still active
C7_Witness ==
    /\ InStepCall
    /\ ~fsrLock[active]
    /\ fsr[active].state = "FSActive"
    /\ fsr[active].active # NoStep
    /\ \E f \in Range(completed) :
          fsr[f].state = "FSPermanentError" /\ fsr[f].active # NoStep

\* every step of a filesystem, in planned order
AllSteps(f) ==
    f.completed \o (IF f.active = NoStep THEN <<>> ELSE <<f.active>>) \o f.pending

\* C8 Terminal states are absorbing: no step of the system changes a step
\* that is Completed or PermanentError, a filesystem that is Completed or
\* PermanentError (none of its fields, so none of its steps is executed),
\* or the overall state Completed; and no call of Send or Receive begins for
\* a filesystem that is in PermanentError.
C8_TerminalStatesAbsorbing ==
    [][/\ \A f \in FS :
            /\ fsr[f].state \in FSTerminal => fsr'[f] = fsr[f]
            /\ (fsr[f].state # "none" /\ fsr'[f] # fsr[f]) =>
                  \A k \in 1..Len(AllSteps(fsr[f])) :
                      AllSteps(fsr[f])[k].state \in StepTerminal =>
                          /\ k <= Len(AllSteps(fsr'[f]))
                          /\ AllSteps(fsr'[f])[k] = AllSteps(fsr[f])[k]
            /\ fsr[f].state = "FSPermanentError" => ~(InStepCall' /\ active' = f)
       /\ state = "Completed" => state' = "Completed"]_vars

\* the run is over with a filesystem in PermanentError whose later steps
\* were never sent
C8_Witness ==
    /\ state = "Completed"
    /\ \E f \in planned :
          /\ fsr[f].state = "FSPermanentError"
          /\ fsr[f].active # NoStep
          /\ fsr[f].active.state = "StepPermanentError"
          /\ fsr[f].pending # <<>>
          /\ \A k \in 1..Len(fsr[f].pending) : fsr[f].pending[k].state = "StepPending"

\* the positions of the driver between the call of drive on the active item
\* and the updater call that applies what drive returned
Driving == pc \in {"drive", "Sender.Send", "Receiver.Receive", "updateStateError",
                   "doDrive.relock", "rsfWorking.update"}

\* C9 Retry reset: once the updater has applied what drive returned, an item
\* whose filesystem is Queued or Completed has retriesSinceLastError = 0; in
\* particular every item in completed whose filesystem is Completed has.
C9_RetryReset ==
    \A f \in planned :
        (fsr[f].state \in {"FSQueued", "FSCompleted"} /\ ~(Driving /\ active = f))
            => retriesSinceLastError[f] = 0

\* the updater has filed an item whose last step Completed under completed
C9_Witness ==
    \E f \in Range(completed) :
        /\ fsr[f].state = "FSCompleted"
        /\ Len(fsr[f].completed) >= 2
        /\ retriesSinceLastError[f] = 0
        /\ active = None

\* the order of C10: x is to be scheduled strictly before y
ScheduledBefore(x, y) ==
    \/ fsr[x].state = "FSQueued" /\ fsr[y].state = "FSRetryWait"
    \/ /\ fsr[x].state = "FSQueued"
       /\ fsr[y].state = "FSQueued"
       /\ fsr[x].pending[1].to < fsr[y].pending[1].to
    \/ /\ fsr[x].state = "FSRetryWait"
       /\ fsr[y].state = "FSRetryWait"
       /\ retriesSinceLastError[x] < retriesSinceLastError[y]

\* C10 Scheduler priority: when Working promotes an item to active, the item
\* comes from pending, is removed from it, and no item of pending is to be
\* scheduled strictly before it.
C10_SchedulerPriority ==
    [][(active = None /\ active' # None) =>
          /\ active' \in Range(pending)
          /\ Range(pending') = Range(pending) \ {active'}
          /\ \A x \in Range(pending) : ~ScheduledBefore(x, active')]_vars

\* of two Queued items the one with the earlier next step was promoted
C10_Witness ==
    /\ pc = "rsfWorking.active"
    /\ active # None
    /\ pending # <<>>
    /\ fsr[active].state = "FSQueued"
    /\ fsr[pending[1]].state = "FSQueued"
    /\ fsr[active].pending[1].to < fsr[pending[1]].pending[1].to
    /\ active > pending[1]

\* the versions a sequence of steps goes from and to, in the sequence's order
StepIds(q) == [k \in 1..Len(q) |-> <<q[k].from, q[k].to>>]

\* C11 Step order: once the plan is installed, completed ++ [active step] ++
\* pending of every filesystem names the same steps in the same order after
\* every step of the system, so it stays the list AddStep built at planning;
\* and while a Send or Receive is in progress every step before the active
\* one in that list is Completed.
C11_StepOrder ==
    [][/\ state \notin {"Planning", "PlanningError"} =>
            \A f \in FS :
                fsr'[f] # fsr[f] =>
                    StepIds(AllSteps(fsr'[f])) = StepIds(AllSteps(fsr[f]))
       /\ InStepCall' =>
            /\ fsr'[active'].active # NoStep
            /\ \A k \in 1..Len(fsr'[active'].completed) :
                  fsr'[active'].completed[k].state = "StepCompleted"
            /\ \A k \in 1..Len(fsr'[active'].completed) :
                  fsr'[active'].completed[k].to <= fsr'[active'].active.from]_vars

\* the Send of a filesystem's second step, its first step is in completed
C11_Witness ==
    /\ pc = "Sender.Send"
    /\ Len(fsr[active].completed) >= 1
    /\ fsr[active].active.from = fsr[active].completed[1].to

\* the driver is blocked in a listing call of an endpoint
InListingCall ==
    pc \in {"Sender.ListFilesystems", "Receiver.ListFilesystems",
            "Sender.ListFilesystemVersions", "Receiver.ListFilesystemVersions"}

\* the planning error recorded for a failure of the listing call at position p
ListingError(p) ==
    CASE p = "Sender.ListFilesystems" -> "err:Sender.ListFilesystems"
      [] p = "Receiver.ListFilesystems" -> "err:Receiver.ListFilesystems"
      [] p = "Sender.ListFilesystemVersions" -> "err:Sender.ListFilesystemVersions"
      [] p = "Receiver.ListFilesystemVersions" -> "err:Receiver.ListFilesystemVersions"

\* C12 Global planning error: when a listing call returns an error other than
\* FilteredError, the run enters PlanningError with planningError set to that
\* call's error, pending, completed, active and the filesystems are left as
\* they were and what Planning had built is dropped; when the PlanningError
\* wait ends with the context live, the run is in Planning again at the start
\* of rsfPlanning with nothing built.
C12_GlobalPlanningError ==
    [][/\ (InListingCall /\ pc' # pc /\ io'.ret = "error") =>
            /\ state' = "PlanningError"
            /\ planningError' = ListingError(pc)
            /\ UNCHANGED <<pending, completed, active, fsr>>
            /\ plPending' = <<>>
            /\ plCompleted' = <<>>
       /\ (pc = "rsfPlanningError.select" /\ pc' # pc /\ ctx = "live") =>
            /\ state' = "Planning"
            /\ pc' = "rsfPlanning"
            /\ plPending' = <<>>
            /\ plCompleted' = <<>>
            /\ plFsr' = [f \in FS |-> NoFSR]
            /\ UNCHANGED <<pending, completed, active, fsr>>]_vars

\* Planning again after a listing call failed while a plan was half built
C12_Witness ==
    /\ state = "Planning"
    /\ planningError = "err:Receiver.ListFilesystemVersions"
    /\ pc = "Receiver.ListFilesystemVersions"
    /\ plPending # <<>>
    /\ pending = <<>>
    /\ completed = <<>>

\* C13 Receiver skip: when the receiver's ListFilesystemVersions returns a
\* FilteredError for the filesystem at hand, the run stays in Planning with
\* planningError as it was, nothing is filed for that filesystem and the loop
\* goes on with the next sender filesystem; a filesystem the loop is past is
\* never filed later, so the skipped one is in neither pending nor completed
\* of the plan that is installed, and the plan holds only sender filesystems.
C13_ReceiverSkip ==
    [][/\ (pc = "Receiver.ListFilesystemVersions" /\ pc' # pc
             /\ io'.ret = "FilteredError") =>
            /\ state' = "Planning"
            /\ planningError' = planningError
            /\ pc' = "rsfPlanning.loop"
            /\ i' = i + 1
            /\ sfss' = sfss
            /\ plFsr' = plFsr
            /\ plFsr[i] = NoFSR
            /\ i \notin Range(plPending') \cup Range(plCompleted')
       /\ (state = "Planning" /\ state' = "Planning") =>
            \A f \in 1..(i - 1) :
                /\ f \in Range(plPending') <=> f \in Range(plPending)
                /\ f \in Range(plCompleted') <=> f \in Range(plCompleted)
       /\ (state = "Planning" /\ state' = "Working") =>
            /\ pending' = plPending
            /\ completed' = plCompleted
            /\ i = sfss + 1
            /\ \A f \in 1..sfss :
                 f \in Range(plPending) \cup Range(plCompleted) \/ plFsr[f] = NoFSR]_vars

\* the receiver has skipped the first of two sender filesystems, the second
\* one is planned and the plan is complete without the first
C13_Witness ==
    /\ state = "Planning"
    /\ planningError = "nil"
    /\ pc = "rsfPlanning.loop"
    /\ sfss = 2
    /\ i = 3
    /\ plFsr[1] = NoFSR
    /\ plPending = <<2>>
    /\ plCompleted = <<>>

\* C14 Sender skip: when the sender's ListFilesystemVersions returns a
\* FilteredError for the filesystem at hand, the run stays in Planning with
\* planningError as it was, and the loop goes on with the next sender
\* filesystem.
C14_SenderSkip ==
    [][(pc = "Sender.ListFilesystemVersions" /\ pc' # pc
          /\ io'.ret = "FilteredError") =>
            /\ state' = "Planning"
            /\ planningError' = planningError
            /\ pc' = "rsfPlanning.loop"
            /\ i' = i + 1]_vars

\* filesystem f was filed by Planning for a sender with at most one version
FewVersions(f) ==
    /\ f \in planned
    /\ fsr[f].permanentError = "sender does not have any versions"

\* C15 Per-filesystem planning failure: when the sender lists at most one
\* version for the filesystem at hand, Planning files it into completed, in
\* state PermanentError with a non-null error and without steps, and goes on
\* with the next filesystem; once the plan is installed such a filesystem is
\* in completed, is never pending or active, stays as it was filed, so no
\* Send or Receive is issued for it; and rsfWorking on a plan with nothing
\* pending moves the run to Completed.
C15_FewVersionsPermanentError ==
    [][/\ (pc = "Sender.ListFilesystemVersions" /\ pc' # pc
             /\ io'.ret = "fewVersions") =>
            /\ state' = "Planning"
            /\ pc' = "rsfPlanning.loop"
            /\ i' = i + 1
            /\ plCompleted' = Append(plCompleted, i)
            /\ plPending' = plPending
            /\ plFsr'[i].state = "FSPermanentError"
            /\ plFsr'[i].permanentError # "nil"
            /\ AllSteps(plFsr'[i]) = <<>>
       /\ \A f \in FS : FewVersions(f)' =>
            /\ f \in Range(completed')
            /\ f \notin Range(pending')
            /\ active' # f
            /\ fsr'[f] = newReplicationQueueItemPermanentError(
                             "sender does not have any versions")
       /\ (state = "Working" /\ pc = "rsfWorking" /\ pc' # pc
             /\ active = None /\ pending = <<>>) =>
            state' = "Completed"]_vars

\* a sender with two filesystems of at most one version each: the run is
\* Completed and Drive has returned
C15_Witness ==
    /\ state = "Completed"
    /\ pc = "nil"
    /\ Len(completed) >= 2
    /\ \A f \in Range(completed) : FewVersions(f)

\* C16 Step outcome classification: when do has returned, the step is in
\* Retry with the error of the call if Send or Receive returned EOF,
\* unexpected EOF, closed pipe or a network error, in PermanentError with the
\* error if the call returned any other error, in PermanentError with an
\* error if Send returned no stream, and in Completed exactly if Receive
\* returned success, which it can only after Send returned a stream; and at
\* every instant a step in Retry or PermanentError carries an error, a step
\* in Completed or Pending carries none.
C16_StepOutcome ==
    /\ pc = "doDrive.relock" =>
         LET s == fsr[active].active IN
         /\ io.ret \in {"ok", "nostream"} \cup StepErrors
         /\ io.ret \in {"EOF", "ErrUnexpectedEOF", "ErrClosedPipe", "NetError"} =>
               s.state = "StepRetry" /\ s.err = io.ret
         /\ io.ret = "Other" => s.state = "StepPermanentError" /\ s.err = io.ret
         /\ io.ret = "nostream" =>
               /\ s.state = "StepPermanentError"
               /\ s.err = "send request did not return a stream"
         /\ io.ret = "ok" <=> s.state = "StepCompleted"
         /\ io.ret = "ok" => io.sstream = "open"
    /\ \A f \in FS :
         LET q == AllSteps(fsr[f]) IN
         \A k \in 1..Len(q) :
            /\ q[k].state \in {"StepRetry", "StepPermanentError"} => q[k].err # "nil"
            /\ q[k].state \in {"StepCompleted", "StepPending"} => q[k].err = "nil"

\* Receive has failed with a closed pipe after Send returned a stream
C16_Witness ==
    /\ pc = "doDrive.relock"
    /\ io.ret = "ErrClosedPipe"
    /\ io.sstream = "closed"
    /\ fsr[active].active.state = "StepRetry"

\* what of a filesystem its lock protects: its state, and which steps are in
\* pending, completed and active
Guarded(f) ==
    <<f.state, StepIds(f.pending), StepIds(f.completed),
      IF f.active = NoStep THEN <<>> ELSE <<f.active.from, f.active.to>> >>

\* C17 Lock handoff: while a listing call, Send or Receive is in progress
\* the driver holds the lock of no filesystem; while Send or Receive is in
\* progress, and until do has returned, the lock of the driven filesystem is
\* free, its state is Active and its active step is the executing one; and a
\* step of the driver that changes an installed filesystem's state or queues
\* ends with the driver holding that filesystem's lock.
C17_LockHandoff ==
    [][/\ InEndpointCall' => \A f \in FS : ~fsrLock'[f]
       /\ (InStepCall' \/ pc' \in {"updateStateError", "doDrive.relock"}) =>
            /\ ~fsrLock'[active']
            /\ fsr'[active'].state = "FSActive"
            /\ fsr'[active'].active # NoStep
       /\ state \notin {"Planning", "PlanningError"} =>
            \A f \in FS :
               (fsr'[f] # fsr[f] /\ Guarded(fsr'[f]) # Guarded(fsr[f])) =>
                   fsrLock'[f] /\ active = f]_vars

\* Receive is in progress for a filesystem with a step still pending, and
\* the filesystem's lock is free
C17_Witness ==
    /\ pc = "Receiver.Receive"
    /\ ~fsrLock[active]
    /\ fsr[active].state = "FSActive"
    /\ fsr[active].pending # <<>>

\* C18 drive: rsfWorking calls drive on a filesystem that is Queued with no
\* step done yet; drive returns only with the filesystem in RetryWait,
\* PermanentError or Completed, never Queued or Active; and when it returns
\* with Completed every planned step of the filesystem is in completed and
\* Completed, all of them executed within that call.
C18_DriveReturns ==
    [][/\ (pc = "rsfWorking.active" /\ pc' = "drive") =>
            /\ fsr[active].state = "FSQueued"
            /\ fsr[active].completed = <<>>
            /\ fsr[active].active = NoStep
            /\ fsr[active].pending # <<>>
       /\ (pc # "rsfWorking.update" /\ pc' = "rsfWorking.update") =>
            /\ pc = "drive"
            /\ active' = active
            /\ fsr' = fsr
            /\ fsr[active].state \in {"FSRetryWait", "FSPermanentError", "FSCompleted"}
            /\ fsr[active].state = "FSCompleted" =>
                 /\ fsr[active].pending = <<>>
                 /\ fsr[active].active = NoStep
                 /\ fsr[active].completed # <<>>
                 /\ \A k \in 1..Len(fsr[active].completed) :
                       fsr[active].completed[k].state = "StepCompleted"]_vars

\* drive has returned Completed for a filesystem of two steps
C18_Witness ==
    /\ pc = "rsfWorking.update"
    /\ fsr[active].state = "FSCompleted"
    /\ Len(fsr[active].completed) >= 2

\* the edges of the overall state machine
Edges ==
    {<<"Planning", "PlanningError">>, <<"Planning", "Working">>,
     <<"PlanningError", "Planning">>, <<"PlanningError", "ContextDone">>,
     <<"Working", "WorkingWait">>, <<"Working", "Completed">>,
     <<"WorkingWait", "Working">>, <<"WorkingWait", "ContextDone">>}

\* C19 Overall edges: every change of the overall state is one of the eight
\* edges; once the state is Working, WorkingWait, Completed or ContextDone it
\* is never Planning or PlanningError again; and Drive has returned exactly
\* when the state is Completed or ContextDone.
C19_OverallEdges ==
    [][/\ state' # state => <<state, state'>> \in Edges
       /\ state \in {"Working", "WorkingWait", "Completed", "ContextDone"} =>
            state' \notin {"Planning", "PlanningError"}
       /\ pc' = "nil" <=> state' \in {"Completed", "ContextDone"}]_vars

\* Drive has returned in ContextDone from a WorkingWait wait, with a
\* filesystem still active
C19_Witness ==
    /\ pc = "nil"
    /\ state = "ContextDone"
    /\ planned # {}
    /\ active # None

\* C20 Step protocol order: Send is called only when do starts and, once it
\* has returned, is not called again before do has returned; Receive is
\* called only from the return of Send, and exactly when Send returned
\* success with a stream; after Receive returns neither call is made again
\* in that execution; the receive request names the driven filesystem and
\* its ClearResumeToken is the negation of the send result's
\* UsedResumeToken; and when Receive fails the stream is closed while the
\* step's state and error are still as before, and they are set by the step
\* after that.
C20_StepProtocol ==
    [][/\ (pc # "Sender.Send" /\ pc' = "Sender.Send") =>
            pc = "drive" /\ io' = IoNone
       /\ (pc = "Sender.Send" /\ pc' # pc) =>
            /\ pc' \in {"Receiver.Receive", "doDrive.relock"}
            /\ pc' = "Receiver.Receive" <=> io'.ret = "stream"
            /\ pc' = "Receiver.Receive" => io'.sstream = "open"
            /\ pc' = "doDrive.relock" => io'.sstream = "nil"
       /\ (pc # "Receiver.Receive" /\ pc' = "Receiver.Receive") =>
            pc = "Sender.Send"
       /\ pc' = "Receiver.Receive" =>
            /\ io'.rr.Filesystem = active'
            /\ io'.rr.ClearResumeToken = ~io'.sres.UsedResumeToken
       /\ (pc = "Receiver.Receive" /\ pc' # pc) =>
            /\ pc' \in {"updateStateError", "doDrive.relock"}
            /\ pc' = "updateStateError" <=> io'.ret # "ok"
            /\ io'.ret # "ok" =>
                 /\ io'.sstream = "closed"
                 /\ fsr' = fsr
                 /\ fsr[active].active.state = "StepPending"
            /\ io'.ret = "ok" => io'.sstream = "open"
       /\ (pc = "updateStateError" /\ pc' # pc) =>
            /\ io.sstream = "closed"
            /\ pc' = "doDrive.relock"
            /\ fsr'[active].active.state \in {"StepRetry", "StepPermanentError"}
       /\ (pc = "doDrive.relock" /\ pc' # pc) => pc' = "drive"]_vars

\* Receive has failed on the second step of a filesystem: the stream is
\* closed and the step is still Pending
C20_Witness ==
    /\ pc = "updateStateError"
    /\ io.sstream = "closed"
    /\ io.ret = "EOF"
    /\ fsr[active].completed # <<>>
    /\ fsr[active].active.state = "StepPending"

\* the steps a non-null path stands for: a full send of the only version of
\* a path of length 1, else the adjacent pairs of the path in order
ExpectedSteps(path) ==
    IF Len(path) = 1
    THEN << [from |-> None, to |-> path[1], state |-> "StepPending", err |-> "nil"] >>
    ELSE [k \in 1..(Len(path) - 1) |->
             [from |-> path[k], to |-> path[k + 1],
              state |-> "StepPending", err |-> "nil"]]

\* the filesystem Planning is to build from a non-null path
ExpectedPlan(path) ==
    [state |-> IF ExpectedSteps(path) = <<>> THEN "FSCompleted" ELSE "FSQueued",
     permanentError |-> "nil",
     completed |-> <<>>,
     pending |-> ExpectedSteps(path),
     active |-> NoStep]

\* C21 Plan construction from a path: the builder turns a path of length 1
\* into exactly one full step, a longer path into its adjacent pairs in
\* order and the empty path into no step; and when Planning has resolved the
\* path of the filesystem at hand, a filesystem with at least one step is
\* appended to pending in state Queued, one with a non-null path and no step
\* to completed in state Completed, and one with a null path to completed in
\* state PermanentError with an error, each time leaving the other queue as
\* it was.
C21_PlanFromPath ==
    [][(pc = "rsfPlanning.path" /\ pc' # pc) =>
          /\ \A p \in AscendingPaths : BuildFromPath(p) = ExpectedPlan(p)
          /\ pc' = "rsfPlanning.loop"
          /\ \E res \in IncrementalPathResults :
               IF res.isNil
               THEN /\ plFsr'[i].state = "FSPermanentError"
                    /\ plFsr'[i].permanentError # "nil"
                    /\ AllSteps(plFsr'[i]) = <<>>
                    /\ plCompleted' = Append(plCompleted, i)
                    /\ plPending' = plPending
               ELSE /\ plFsr'[i] = ExpectedPlan(res.path)
                    /\ IF Len(ExpectedSteps(res.path)) >= 1
                       THEN /\ plFsr'[i].state = "FSQueued"
                            /\ plPending' = Append(plPending, i)
                            /\ plCompleted' = plCompleted
                       ELSE /\ plFsr'[i].state = "FSCompleted"
                            /\ plCompleted' = Append(plCompleted, i)
                            /\ plPending' = plPending]_vars

\* Planning has built one filesystem of two incremental steps, which is in
\* pending, and one from a path of length 1, a full send
C21_Witness ==
    /\ state = "Planning"
    /\ pc = "rsfPlanning.loop"
    /\ \E f, g \in Range(plPending) :
          /\ Len(plFsr[f].pending) >= 2
          /\ plFsr[f].pending[2].from = plFsr[f].pending[1].to
          /\ Len(plFsr[g].pending) = 1
          /\ plFsr[g].pending[1].from = None

\* no panic has happened and none of the guards against an illegal state
\* would fire: see C22
NoPanic ==
    /\ pc # "panic"
    /\ \A x \in Range(pending) :
          /\ fsr[x].state \in {"FSQueued", "FSRetryWait"}
          /\ fsr[x].state = "FSQueued" => fsr[x].pending # <<>>
    /\ pc = "rsfWorking.active" => fsr[active].state \in {"FSQueued", "FSRetryWait"}
    /\ pc = "rsfWorking.update" =>
          fsr[active].state \in {"FSQueued", "FSRetryWait", "FSPermanentError", "FSCompleted"}
    /\ pc = "drive" =>
          fsr[active].state \in {"FSQueued", "FSActive", "FSRetryWait",
                                 "FSPermanentError", "FSCompleted"}
    /\ \A f \in Range(plPending) : plFsr[f].state = "FSQueued"
    /\ \A f \in Range(plCompleted) : plFsr[f].state \in {"FSCompleted", "FSPermanentError"}

\* C22 Panic unreachability: in every run, at every instant, the driver has
\* not panicked and at every place that guards against an illegal state the
\* state is legal: every item of pending is Queued or RetryWait, and has a
\* next step if it is Queued (the scheduler's sort and nextStepDate); the
\* item rsfWorking holds as active is Queued or RetryWait; what drive
\* returned is Queued, RetryWait, PermanentError or Completed; a filesystem
\* doDrive is called on is in one of the states of its switch; and what
\* Planning filed is Queued, Completed or a permanent error.
C22_NoPanic == []NoPanic

\* after a cancellation, drive has returned RetryWait to rsfWorking while
\* other items wait in pending
C22_Witness ==
    /\ pc = "rsfWorking.update"
    /\ fsr[active].state = "FSRetryWait"
    /\ pending # <<>>
    /\ ctx # "live"

\* C23 Filesystems are never interleaved: an active item stays the active
\* item until its filesystem is Completed or PermanentError, and is filed in
\* completed when it is given up; once the plan is installed no item enters
\* pending and only the active item's filesystem changes, so Send and Receive
\* are issued for no other filesystem; and every item in pending is Queued
\* with retriesSinceLastError = 0, no step in completed or active and every
\* step Pending.
C23_NoInterleaving ==
    [][/\ (active # None /\ active' # active) =>
            /\ active' = None
            /\ fsr[active].state \in {"FSCompleted", "FSPermanentError"}
            /\ completed' = Append(completed, active)
       /\ state \notin {"Planning", "PlanningError"} =>
            /\ Range(pending') \subseteq Range(pending)
            /\ \A f \in FS : fsr'[f] # fsr[f] => (f = active /\ f = active')
       /\ InStepCall' => (active' # None /\ active' \notin Range(pending'))
       /\ \A x \in Range(pending') :
            /\ fsr'[x].state = "FSQueued"
            /\ retriesSinceLastError'[x] = 0
            /\ fsr'[x].completed = <<>>
            /\ fsr'[x].active = NoStep
            /\ \A k \in 1..Len(fsr'[x].pending) :
                  fsr'[x].pending[k].state = "StepPending"]_vars

\* the active item waits in RetryWait through a WorkingWait while another
\* item is still in pending
C23_Witness ==
    /\ pc = "rsfWorkingWait.select"
    /\ active # None
    /\ fsr[active].state = "FSRetryWait"
    /\ retriesSinceLastError[active] >= 1
    /\ pending # <<>>

====
